---- MODULE Spec2Model ----
(***************************************************************************)
(* Drago Decor API: the request handlers of main.py over the document      *)
(* store, the pydantic schemas of schemas.py, and the two calculators      *)
(* (paint coverage, complementary colour).                                 *)
(*                                                                         *)
(* Text that the code inspects character by character (a product title,    *)
(* the search text q, a colour string) is a sequence of one-character      *)
(* strings; text that is only compared for equality is a TLA+ string.      *)
(* An Optional[...] value is the empty set (None) or a singleton.          *)
(* Prices and the calculator's reals are integers: prices in whole units,  *)
(* the coverage calculator's numbers in hundredths.                        *)
(***************************************************************************)
EXTENDS Integers, Sequences, FiniteSets, TLC

VARIABLES
    db,              \* database.db: TRUE when a store connection is configured
    category,        \* the collections, each in insertion order
    product,
    review,
    order,
    blogpost,
    contactmessage,
    professional,
    resp,            \* the last request and its response
    lastPost         \* the successful POST that immediately preceded it, if any

store == <<category, product, review, order, blogpost, contactmessage, professional>>
vars == <<db, category, product, review, order, blogpost, contactmessage, professional,
          resp, lastPost>>

\* ------------------------------------------------------------------ bounds

\* Documents in the store, all collections together.
MaxDocs == 2
\* Products in the catalogue of the product-listing specification.
MaxProducts == 3
\* Length of the short malformed colour strings.
MaxShortLen == 2

\* ------------------------------------------------------------- Optional[T]

None == {}
Some(v) == {v}
The(o) == CHOOSE v \in o : TRUE

\* Python truthiness of an Optional[str] held as a TLA+ string / as characters.
TruthyStr(o) == o # None /\ The(o) # ""
TruthyChars(o) == o # None /\ Len(The(o)) > 0

\* ---------------------------------------------------------------- schemas

Finishes == {"opaco", "seta", "lucido", "satinato", "opaco-prof"}
Usages == {"interno", "esterno", "entrambi"}
Statuses == {"pending", "paid", "shipped"}
Tiers == {"standard", "pro", "elite"}

ValidProductVariant(v) == v.finish \in Finishes /\ v.stock >= 0

ValidProduct(p) ==
    /\ p.usage \in Usages
    /\ p.base_price >= 0
    /\ \A i \in 1..Len(p.variants) : ValidProductVariant(p.variants[i])

\* Review without the upper bound of its rating.
ValidReview_NoUpperBound(r) == r.rating >= 1

ValidReview(r) == r.rating >= 1 /\ r.rating <= 5

ValidCartItem(i) == i.quantity >= 1 /\ i.unit_price >= 0

ValidOrder(o) ==
    /\ \A i \in 1..Len(o.items) : ValidCartItem(o.items[i])
    /\ o.total >= 0
    /\ o.status \in Statuses

ValidProfessional(p) == p.tier \in Tiers

\* ------------------------------------------------------------ the store

TotalDocs ==
    Len(category) + Len(product) + Len(review) + Len(order) + Len(blogpost)
        + Len(contactmessage) + Len(professional)

\* insert: the stored document is the validated body plus the identifier the
\* store assigns; the collection grows at its end.
NewId == TotalDocs + 1
Stored(body) == body @@ [id |-> NewId]

Min(a, b) == IF a <= b THEN a ELSE b

UpperCase == <<"A", "B", "C", "D", "E", "F">>
LowerCase == <<"a", "b", "c", "d", "e", "f">>

\* Case folding of the letters the model's texts use.
Fold(c) ==
    IF \E i \in 1..Len(UpperCase) : UpperCase[i] = c
    THEN LowerCase[CHOOSE i \in 1..Len(UpperCase) : UpperCase[i] = c]
    ELSE c

\* {"$regex": pat, "$options": "i"}: the pattern is searched anywhere in the
\* text. A pattern is made of literal characters and ".", which stands for
\* any one character.
RegexMatchesAt(pat, text, at) ==
    \A j \in 1..Len(pat) : pat[j] = "." \/ Fold(pat[j]) = Fold(text[at + j - 1])

RegexSearch(pat, text) ==
    \E at \in 1..(Len(text) - Len(pat) + 1) : RegexMatchesAt(pat, text, at)

NoFilter == [k \in {} |-> {}]

\* One key of a filter document against a stored document.
FieldMatches(d, key, cond) ==
    CASE key = "title" -> RegexSearch(cond.regex, d.title)
      [] key = "variants.hex" -> \E i \in 1..Len(d.variants) : d.variants[i].hex = cond
      [] key = "variants.finish" -> \E i \in 1..Len(d.variants) : d.variants[i].finish = cond
      [] key = "base_price" ->
            /\ "$gte" \in DOMAIN cond => d.base_price >= cond["$gte"]
            /\ "$lte" \in DOMAIN cond => d.base_price <= cond["$lte"]
      [] OTHER -> d[key] = cond

FilterMatches(d, flt) == \A key \in DOMAIN flt : FieldMatches(d, key, flt[key])

\* find: the documents of the collection that match the filter, in insertion
\* order, cut to the first `limit` of them.
get_documents(coll, flt, limit) ==
    LET Matches(d) == FilterMatches(d, flt)
        hits == SelectSeq(coll, Matches)
    IN  SubSeq(hits, 1, Min(limit, Len(hits)))

\* ------------------------------------------------------- request bodies

CategoryBodies ==
    { [name |-> "Smalti", slug |-> "smalti", description |-> Some("smalti all'acqua"),
       hero_image |-> None] }

Variant(hex, finish, stock) ==
    [color_name |-> "tinta", hex |-> hex, finish |-> finish, stock |-> stock]

Prod(title, cat, usage, price, variants) ==
    [title |-> title, description |-> "scheda", category |-> cat, usage |-> usage,
     base_price |-> price, variants |-> variants, tech_sheet_url |-> None, images |-> <<>>]

White == "#FFFFFF"
Black == "#000000"

\* The catalogue the product listing is exercised on.
ProductBodies ==
    { Prod(<<"A", "b">>, "pitture", "interno", 5, <<Variant(White, "opaco", 3)>>),
      Prod(<<"b", "a">>, "pitture", "esterno", 15,
           <<Variant(White, "lucido", 0), Variant(Black, "opaco", 1)>>),
      Prod(<<"a", ".">>, "pitture", "interno", 25, <<>>),
      Prod(<<"B">>, "smalti", "interno", 15, <<Variant(Black, "lucido", 2)>>),
      Prod(<<"b">>, "", "entrambi", 10, <<Variant(Black, "opaco", 0)>>) }

\* Product bodies at and beyond the schema's bounds.
ProductSample ==
    { Prod(<<"A", "b">>, "pitture", "interno", 0, <<Variant(White, "opaco", 0)>>),
      Prod(<<"A", "b">>, "pitture", "interno", -1, <<>>),
      Prod(<<"A", "b">>, "pitture", "industriale", 5, <<>>),
      Prod(<<"A", "b">>, "pitture", "interno", 5, <<Variant(White, "opaco", -1)>>),
      Prod(<<"A", "b">>, "pitture", "interno", 5,
           <<Variant(White, "opaco", 0), Variant(Black, "glitter", 0)>>) }

ProductIds == {"p1", "p2"}

Rev(product_id, rating) ==
    [product_id |-> product_id, rating |-> rating, author |-> "anna", comment |-> None]

ReviewBodies == { Rev("p1", 1), Rev("p2", 5), Rev("p1", 0), Rev("p2", 6) }

Item(quantity, unit_price) ==
    [product_id |-> "p1", variant_hex |-> None, quantity |-> quantity,
     unit_price |-> unit_price]

Ord(items, total, status) ==
    [user_email |-> "anna@example.com", items |-> items, total |-> total, status |-> status]

OrderBodies ==
    { Ord(<<Item(1, 0), Item(2, 15)>>, 0, "paid"),
      Ord(<<>>, -1, "pending"),
      Ord(<<>>, 0, "lost"),
      Ord(<<Item(1, 5), Item(0, 5)>>, 5, "shipped"),
      Ord(<<Item(1, -1)>>, 0, "pending") }

BlogBodies ==
    [title : {"Colori"}, slug : {"colori", "finiture"}, content : {"testo"},
     cover : {None}, tags : {<<"decor">>}]

ContactBodies == [name : {"anna"}, email : {"anna@example.com"}, message : {"ciao"}]

ProfessionalBodies ==
    [business_name : {"Edil"}, vat : {None}, email : {"edil@example.com"},
     tier : {"standard", "basic"}]

\* ------------------------------------------------------------ responses

CreateOps ==
    {"create_category", "create_product", "create_review", "create_order",
     "create_blog", "contact", "create_professional"}

CollectionOf(op) ==
    CASE op = "create_category" -> "category"
      [] op = "create_product" -> "product"
      [] op = "create_review" -> "review"
      [] op = "create_order" -> "order"
      [] op = "create_blog" -> "blogpost"
      [] op = "contact" -> "contactmessage"
      [] op = "create_professional" -> "professional"

NoPost == [coll |-> "none"]

PostOf(r) ==
    IF r.op \in CreateOps /\ r.status = 200
    THEN [coll |-> CollectionOf(r.op), body |-> r.req]
    ELSE NoPost

Respond(op, status, req, out) ==
    /\ resp' = [op |-> op, status |-> status, req |-> req, out |-> out]
    /\ lastPost' = PostOf(resp)

\* A POST handler up to the store call: 422 from the schema, 5xx from a store
\* without a connection, and otherwise the identifier of the new document.
Rejected(op, body) == Respond(op, 422, body, <<>>) /\ UNCHANGED <<db, store>>
Unavailable(op, body) == Respond(op, 500, body, <<>>) /\ UNCHANGED <<db, store>>
Created(op, body) == Respond(op, 200, body, [id |-> NewId])

\* ------------------------------------------------------------ handlers

read_root ==
    /\ Respond("read_root", 200, <<>>, [brand |-> "Drago Decor", status |-> "ok"])
    /\ UNCHANGED <<db, store>>

list_categories ==
    /\ Respond("list_categories", 200, <<>>, get_documents(category, NoFilter, 50))
    /\ UNCHANGED <<db, store>>

create_category(c) ==
    IF ~db THEN Unavailable("create_category", c)
    ELSE /\ Created("create_category", c)
         /\ category' = Append(category, Stored(c))
         /\ UNCHANGED <<db, product, review, order, blogpost, contactmessage, professional>>

create_product(p) ==
    IF ~ValidProduct(p) THEN Rejected("create_product", p)
    ELSE IF ~db THEN Unavailable("create_product", p)
    ELSE /\ Created("create_product", p)
         /\ product' = Append(product, Stored(p))
         /\ UNCHANGED <<db, category, review, order, blogpost, contactmessage, professional>>

\* get_reviews with the product_id left out of the filter.
get_reviews_unfiltered(product_id) ==
    /\ Respond("get_reviews", 200, product_id, get_documents(review, NoFilter, 100))
    /\ UNCHANGED <<db, store>>

get_reviews(product_id) ==
    /\ Respond("get_reviews", 200, product_id,
               get_documents(review, "product_id" :> product_id, 100))
    /\ UNCHANGED <<db, store>>

create_review(r) ==
    IF ~ValidReview(r) THEN Rejected("create_review", r)
    ELSE IF ~db THEN Unavailable("create_review", r)
    ELSE /\ Created("create_review", r)
         /\ review' = Append(review, Stored(r))
         /\ UNCHANGED <<db, category, product, order, blogpost, contactmessage, professional>>

\* create_order writing to the reviews' collection.
create_order_into_review(o) ==
    IF ~ValidOrder(o) THEN Rejected("create_order", o)
    ELSE IF ~db THEN Unavailable("create_order", o)
    ELSE /\ Created("create_order", o)
         /\ review' = Append(review, Stored(o))
         /\ UNCHANGED <<db, category, product, order, blogpost, contactmessage, professional>>

create_order(o) ==
    IF ~ValidOrder(o) THEN Rejected("create_order", o)
    ELSE IF ~db THEN Unavailable("create_order", o)
    ELSE /\ Created("create_order", o)
         /\ order' = Append(order, Stored(o))
         /\ UNCHANGED <<db, category, product, review, blogpost, contactmessage, professional>>

\* A `limit` query parameter left out takes the handler's default.
LimitOr(limit, default) == IF limit = None THEN default ELSE The(limit)

\* list_blog passing a limit of one whatever the caller asks.
list_blog_first(limit) ==
    /\ Respond("list_blog", 200, limit, get_documents(blogpost, NoFilter, 1))
    /\ UNCHANGED <<db, store>>

list_blog(limit) ==
    /\ Respond("list_blog", 200, limit, get_documents(blogpost, NoFilter, LimitOr(limit, 20)))
    /\ UNCHANGED <<db, store>>

create_blog(post) ==
    IF ~db THEN Unavailable("create_blog", post)
    ELSE /\ Created("create_blog", post)
         /\ blogpost' = Append(blogpost, Stored(post))
         /\ UNCHANGED <<db, category, product, review, order, contactmessage, professional>>

contact(msg) ==
    IF ~db THEN Unavailable("contact", msg)
    ELSE /\ Respond("contact", 200, msg, [id |-> NewId, status |-> "received"])
         /\ contactmessage' = Append(contactmessage, Stored(msg))
         /\ UNCHANGED <<db, category, product, review, order, blogpost, professional>>

list_professionals(limit) ==
    /\ Respond("list_professionals", 200, limit,
               get_documents(professional, NoFilter, LimitOr(limit, 50)))
    /\ UNCHANGED <<db, store>>

create_professional(pro) ==
    IF ~ValidProfessional(pro) THEN Rejected("create_professional", pro)
    ELSE IF ~db THEN Unavailable("create_professional", pro)
    ELSE /\ Created("create_professional", pro)
         /\ professional' = Append(professional, Stored(pro))
         /\ UNCHANGED <<db, category, product, review, order, blogpost, contactmessage>>

\* --------------------------------------------------- product listing

PriceFilter(min_price, max_price) ==
    (IF min_price # None THEN "$gte" :> The(min_price) ELSE NoFilter)
        @@ (IF max_price # None THEN "$lte" :> The(max_price) ELSE NoFilter)

\* The filter document list_products builds from its query parameters.
ProductFilter(query) ==
    (IF TruthyStr(query.category) THEN "category" :> The(query.category) ELSE NoFilter)
        @@ (IF TruthyStr(query.usage) THEN "usage" :> The(query.usage) ELSE NoFilter)
        @@ (IF TruthyChars(query.q)
            THEN "title" :> [regex |-> The(query.q), options |-> "i"]
            ELSE NoFilter)
        @@ (IF TruthyStr(query.color) THEN "variants.hex" :> The(query.color) ELSE NoFilter)
        @@ (IF TruthyStr(query.finish)
            THEN "variants.finish" :> The(query.finish)
            ELSE NoFilter)
        @@ (IF query.min_price # None \/ query.max_price # None
            THEN "base_price" :> PriceFilter(query.min_price, query.max_price)
            ELSE NoFilter)

list_products(query) ==
    LET flt == ProductFilter(query)
    IN  /\ Respond("list_products", 200, query,
                   get_documents(product, flt, LimitOr(query.limit, 50)))
        /\ UNCHANGED <<db, store>>

Query(cat, color, finish, usage, q, min_price, max_price, limit) ==
    [category |-> cat, color |-> color, finish |-> finish, usage |-> usage, q |-> q,
     min_price |-> min_price, max_price |-> max_price, limit |-> limit]

\* Listings without a filter, as the other collections have them.
BasicQueries ==
    { Query(None, None, None, None, None, None, None, l) : l \in {None, Some(1), Some(2)} }

ProductQueries ==
    [category : {None, Some(""), Some("pitture")},
     color : {None, Some(White)},
     finish : {None, Some("opaco")},
     usage : {None, Some("interno")},
     q : {None, Some(<<>>), Some(<<"a", "B">>), Some(<<".">>)},
     min_price : {None, Some(10)},
     max_price : {None, Some(20)},
     limit : {None, Some(1)}]

\* ----------------------------------------------------------- coverage

\* The calculator's reals are counted in hundredths: 1000 is 10.0, 5 is 0.05.
Hundredths == 100

Max(a, b) == IF a >= b THEN a ELSE b

\* CoverageRequest: a field left out of the body takes its default.
CoverageRequest(data) ==
    [mq |-> data.mq,
     mano |-> IF data.mano = None THEN 2 ELSE The(data.mano),
     resa_mq_litro |-> IF data.resa_mq_litro = None THEN 1000 ELSE The(data.resa_mq_litro)]

\* The yield taken as it comes, without the floor of 0.1.
Yield_unclamped(resa_mq_litro) == resa_mq_litro

\* max(0.1, resa_mq_litro), in hundredths.
Yield(resa_mq_litro) == Max(10, resa_mq_litro)

\* round(n / d): the nearest integers to n / d. Off a tie there is one; at a
\* tie the binary value of the quotient decides between the two, which the
\* hundredths do not show, so both are possible.
Rounded(n, d) ==
    LET q == n \div d
        r == n - q * d
    IN  IF 2 * r < d THEN {q}
        ELSE IF 2 * r > d THEN {q + 1}
        ELSE {q, q + 1}

\* round(mq * mano / yield, 2), in hundredths; a zero divisor raises.
coverage(body) ==
    LET data == CoverageRequest(body)
        den == Yield(data.resa_mq_litro)
    IN  /\ IF den = 0
           THEN Respond("coverage", 500, body, <<>>)
           ELSE \E litri \in Rounded(data.mq * data.mano * Hundredths, den) :
                    Respond("coverage", 200, body, [litri |-> litri])
        /\ UNCHANGED <<db, store>>

CoverageBodies ==
    [mq : {-500, 0, 5, 333, 1000, 2000},
     mano : {None, Some(-1), Some(0), Some(1), Some(2), Some(3)},
     resa_mq_litro : {None, Some(-100), Some(0), Some(5), Some(10), Some(11), Some(300),
                      Some(700), Some(1000)}]

CoverageSample ==
    { [mq |-> 2000, mano |-> Some(2), resa_mq_litro |-> Some(1000)],
      [mq |-> 1000, mano |-> Some(1), resa_mq_litro |-> Some(5)],
      [mq |-> 1000, mano |-> None, resa_mq_litro |-> Some(0)] }

\* ---------------------------------------------------------- visualizer

\* apply_color: the uploaded image comes back as it is, with its content type.
apply_color(image, content_type, color, finish) ==
    /\ Respond("apply_color", 200, [image |-> image, color |-> color, finish |-> finish],
               [body |-> image, media_type |-> content_type])
    /\ UNCHANGED <<db, store>>

HexUpper == <<"0", "1", "2", "3", "4", "5", "6", "7", "8", "9", "A", "B", "C", "D", "E", "F">>
HexLower == <<"0", "1", "2", "3", "4", "5", "6", "7", "8", "9", "a", "b", "c", "d", "e", "f">>

IsHexDigit(c) == \E i \in 1..16 : HexUpper[i] = c \/ HexLower[i] = c
HexValue(c) == (CHOOSE i \in 1..16 : HexUpper[i] = c \/ HexLower[i] = c) - 1

Whitespace == {" ", "\t", "\n", "\r", "\f"}

RECURSIVE StripLeft(_)
StripLeft(s) ==
    IF Len(s) > 0 /\ s[1] \in Whitespace THEN StripLeft(Tail(s)) ELSE s

RECURSIVE StripRight(_)
StripRight(s) ==
    IF Len(s) > 0 /\ s[Len(s)] \in Whitespace
    THEN StripRight(SubSeq(s, 1, Len(s) - 1))
    ELSE s

RECURSIVE DigitsValue(_)
DigitsValue(s) ==
    IF Len(s) = 0 THEN 0
    ELSE 16 * DigitsValue(SubSeq(s, 1, Len(s) - 1)) + HexValue(s[Len(s)])

\* int(s, 16) of a slice of at most two characters: blanks around the text are
\* dropped, one sign may lead, and what is left must be hex digits, at least
\* one. (Two characters have no room for a 0x prefix in front of a digit, nor
\* for an underscore between digits.)
ParseInt16(s) ==
    LET t == StripRight(StripLeft(s))
        signed == Len(t) > 0 /\ t[1] \in {"+", "-"}
        digits == IF signed THEN Tail(t) ELSE t
    IN  IF Len(digits) > 0 /\ \A i \in 1..Len(digits) : IsHexDigit(digits[i])
        THEN [ok |-> TRUE,
              value |-> IF signed /\ t[1] = "-" THEN 0 - DigitsValue(digits)
                        ELSE DigitsValue(digits)]
        ELSE [ok |-> FALSE, value |-> 0]

RECURSIVE ToHex(_)
ToHex(n) ==
    IF n < 16 THEN <<HexUpper[n + 1]>>
    ELSE ToHex(n \div 16) \o <<HexUpper[(n % 16) + 1]>>

\* format(n, "02X"): upper-case hex, filled with zeros to two characters.
Format02X(n) ==
    IF n < 0 THEN <<"-">> \o ToHex(0 - n)
    ELSE IF n < 16 THEN <<"0">> \o ToHex(n)
    ELSE ToHex(n)

Hex3(x, y, z) == <<"#">> \o Format02X(x) \o Format02X(y) \o Format02X(z)

\* The format check with `and` for `or`.
BadColorFormat_and(color) == ~(Len(color) > 0 /\ color[1] = "#") /\ Len(color) # 7

\* The check on the colour text: it starts with "#" and is 7 characters long.
BadColorFormat(color) == ~(Len(color) > 0 /\ color[1] = "#") \/ Len(color) # 7

\* The third suggestion with R and B swapped instead of R and G.
Triad_swapRB(r, g, b) == <<Hex3(r, g, b), Hex3(r, b, g), Hex3(b, g, r)>>

Triad(r, g, b) == <<Hex3(r, g, b), Hex3(r, b, g), Hex3(g, r, b)>>

\* s[from:to] of Python, counted from 1 with `to` included: what there is of it.
Slice(s, from, to) == SubSeq(s, Min(from, Len(s) + 1), Min(to, Len(s)))

complementary(color) ==
    /\ IF BadColorFormat(color)
       THEN Respond("complementary", 400, color, <<>>)
       ELSE LET pr == ParseInt16(Slice(color, 2, 3))
                pg == ParseInt16(Slice(color, 4, 5))
                pb == ParseInt16(Slice(color, 6, 7))
                r == 255 - pr.value
                g == 255 - pg.value
                b == 255 - pb.value
            IN  IF ~(pr.ok /\ pg.ok /\ pb.ok)
                THEN Respond("complementary", 500, color, <<>>)
                ELSE Respond("complementary", 200, color,
                             [complementary |-> Hex3(r, g, b), suggestions |-> Triad(r, g, b)])
    /\ UNCHANGED <<db, store>>

\* ---------------------------------------------------------- diagnostics

CollectionNames ==
    LET names == <<"category", "product", "review", "order", "blogpost", "contactmessage",
                   "professional">>
        Used(n) ==
            CASE n = "category" -> Len(category) > 0
              [] n = "product" -> Len(product) > 0
              [] n = "review" -> Len(review) > 0
              [] n = "order" -> Len(order) > 0
              [] n = "blogpost" -> Len(blogpost) > 0
              [] n = "contactmessage" -> Len(contactmessage) > 0
              [] n = "professional" -> Len(professional) > 0
    IN  SelectSeq(names, Used)

\* /test: url_set and name_set say whether DATABASE_URL and DATABASE_NAME are
\* set; listing_fails is the store refusing to list its collections.
test_database(url_set, name_set, listing_fails) ==
    /\ Respond("test_database", 200, <<>>,
               [backend |-> "Running",
                database |-> IF ~db THEN "Available but not initialized"
                             ELSE IF listing_fails THEN "Connected but Error"
                             ELSE "Connected & Working",
                database_url |-> IF url_set THEN "Set" ELSE "Not Set",
                database_name |-> IF name_set THEN "Set" ELSE "Not Set",
                connection_status |-> IF db THEN "Connected" ELSE "Not Connected",
                collections |-> IF db /\ ~listing_fails
                                THEN SubSeq(CollectionNames, 1, Min(10, Len(CollectionNames)))
                                ELSE <<>>])
    /\ UNCHANGED <<db, store>>

\* ------------------------------------------------------- colour inputs

ColorChars == {"0", "c", "F", "+", "-", " ", "g"}

Chars(n, alphabet) == [1..n -> alphabet]

\* Texts that fail the format check: short ones, and the right length or the
\* right first character alone.
MalformedColors ==
    UNION { Chars(n, {"#", "3", "F"}) : n \in 0..MaxShortLen }
        \cup { <<"3", "3", "6", "6", "9", "9">>,
               <<"#", "3", "3", "6", "6">>,
               <<"3", "#", "3", "6", "6", "9", "9">>,
               <<"0", "3", "3", "6", "6", "9", "9">>,
               <<"#", "3", "3", "6", "6", "9", "9", "0">> }

ColorExamples ==
    { <<"#", "3", "3", "6", "6", "9", "9">>,
      <<"#", "0", "0", "0", "0", "0", "0">>,
      <<"#", "a", "B", "c", "D", "e", "F">>,
      <<"#", "1", "2", "7", "8", "4", "5">> }

ColorInputs ==
    { <<"#">> \o t : t \in Chars(6, ColorChars) } \cup ColorExamples \cup MalformedColors

ColorSample ==
    { <<"#", "3", "3", "6", "6", "9", "9">>,
      <<"3", "3", "6", "6", "9", "9">>,
      <<"#", "-", "1", " ", "1", "g", "1">>,
      <<"#", "-", "1", "+", "1", " ", "1">> }

\* -------------------------------------------------------- specifications

Init ==
    /\ db \in BOOLEAN
    /\ category = <<>>
    /\ product = <<>>
    /\ review = <<>>
    /\ order = <<>>
    /\ blogpost = <<>>
    /\ contactmessage = <<>>
    /\ professional = <<>>
    /\ resp = [op |-> "none", status |-> 0, req |-> <<>>, out |-> <<>>]
    /\ lastPost = NoPost

Limits == {None, Some(1), Some(2)}

\* The store holds at most `bound` documents after the step.
Within(bound) == TotalDocs' <= bound

\* Every request of the API, on a store of at most MaxDocs documents.
Next ==
    \/ read_root
    \/ list_categories
    \/ \E c \in CategoryBodies : create_category(c) /\ Within(MaxDocs)
    \/ \E query \in BasicQueries : list_products(query)
    \/ \E p \in ProductSample : create_product(p) /\ Within(MaxDocs)
    \/ \E product_id \in ProductIds \cup {"p9"} : get_reviews(product_id)
    \/ \E r \in ReviewBodies : create_review(r) /\ Within(MaxDocs)
    \/ \E o \in OrderBodies : create_order(o) /\ Within(MaxDocs)
    \/ \E limit \in Limits : list_blog(limit)
    \/ \E post \in BlogBodies : create_blog(post) /\ Within(MaxDocs)
    \/ \E msg \in ContactBodies : contact(msg) /\ Within(MaxDocs)
    \/ \E limit \in Limits : list_professionals(limit)
    \/ \E pro \in ProfessionalBodies : create_professional(pro) /\ Within(MaxDocs)
    \/ \E data \in CoverageSample : coverage(data)
    \/ \E image \in {<<>>, <<137, 80>>} : apply_color(image, "image/png", None, None)
    \/ \E color \in ColorSample : complementary(color)
    \/ \E url_set, name_set, listing_fails \in BOOLEAN :
           test_database(url_set, name_set, listing_fails)

Spec == Init /\ [][Next]_vars

\* The product catalogue, of at most MaxProducts products, and one listing of
\* it: a listing reads the catalogue and its query alone.
NextProducts ==
    \/ /\ resp.op # "list_products"
       /\ \E p \in ProductBodies : create_product(p) /\ Within(MaxProducts)
    \/ /\ resp.op # "list_products"
       /\ \E query \in ProductQueries : list_products(query)

SpecProducts == Init /\ [][NextProducts]_vars

\* The complementary colour of every text of ColorInputs, one request each:
\* the answer depends on the text alone.
NextColor == resp.op = "none" /\ \E color \in ColorInputs : complementary(color)

SpecColor == Init /\ [][NextColor]_vars

\* The coverage of every body of CoverageBodies.
NextCoverage == \E data \in CoverageBodies : coverage(data)

SpecCoverage == Init /\ [][NextCoverage]_vars

\* ================================================================ claims

Cap(limit, n) == IF limit <= n THEN limit ELSE n

\* ------------------------------------------------------------------ C1

\* q as the claim reads it: the text occurs in the title, letter case aside.
OccursIn(q, title) ==
    \E at \in 1..(Len(title) - Len(q) + 1) :
        \A j \in 1..Len(q) : Fold(q[j]) = Fold(title[at + j - 1])

\* A product satisfies every filter the query supplies.
Satisfies(d, query) ==
    /\ query.category # None => d.category = The(query.category)
    /\ query.usage # None => d.usage = The(query.usage)
    /\ query.color # None => \E i \in 1..Len(d.variants) : d.variants[i].hex = The(query.color)
    /\ query.finish # None =>
           \E i \in 1..Len(d.variants) : d.variants[i].finish = The(query.finish)
    /\ query.q # None => OccursIn(The(query.q), d.title)
    /\ query.min_price # None => d.base_price >= The(query.min_price)
    /\ query.max_price # None => d.base_price <= The(query.max_price)

\* C1: GET /api/products returns exactly the stored products that satisfy
\* every supplied filter at once, up to `limit` of them: each returned
\* product is stored and satisfies all the filters, and as many are returned
\* as satisfy them, or `limit` if that is less.
C1_FilterConjunction ==
    resp.op = "list_products" =>
        LET query == resp.req
            Hit(d) == Satisfies(d, query)
            limit == IF query.limit = None THEN 50 ELSE The(query.limit)
        IN  /\ resp.status = 200
            /\ \A i \in 1..Len(resp.out) :
                   /\ Hit(resp.out[i])
                   /\ \E k \in 1..Len(product) : product[k] = resp.out[i]
            /\ Len(resp.out) = Cap(limit, Len(SelectSeq(product, Hit)))

\* ------------------------------------------------------------------ C2

\* The documents a listing is asked for, and the cap it passes to the store.
ListedCollection ==
    CASE resp.op = "list_categories" -> "category"
      [] resp.op = "list_products" -> "product"
      [] resp.op = "get_reviews" -> "review"
      [] resp.op = "list_blog" -> "blogpost"
      [] resp.op = "list_professionals" -> "professional"
      [] OTHER -> "no listing"

\* The last request lists the collection the request before it posted to.
ListsThePost ==
    /\ lastPost # NoPost
    /\ ListedCollection = lastPost.coll
    /\ resp.op = "get_reviews" => resp.req = lastPost.body.product_id

HasFieldsOf(doc, body) == \A f \in DOMAIN body : doc[f] = body[f]

ListingHasThePost == \E i \in 1..Len(resp.out) : HasFieldsOf(resp.out[i], lastPost.body)

\* How many documents the listing matches, and the most it returns.
ListingMatches ==
    CASE resp.op = "list_categories" -> Len(category)
      [] resp.op = "list_products" -> Len(product)
      [] resp.op = "get_reviews" ->
            Cardinality({i \in 1..Len(review) : review[i].product_id = resp.req})
      [] resp.op = "list_blog" -> Len(blogpost)
      [] resp.op = "list_professionals" -> Len(professional)

ListingLimit ==
    CASE resp.op = "list_categories" -> 50
      [] resp.op = "list_products" ->
            IF resp.req.limit = None THEN 50 ELSE The(resp.req.limit)
      [] resp.op = "get_reviews" -> 100
      [] resp.op = "list_blog" -> IF resp.req = None THEN 20 ELSE The(resp.req)
      [] resp.op = "list_professionals" -> IF resp.req = None THEN 50 ELSE The(resp.req)

ItemInBounds(i) == i.quantity >= 1 /\ i.unit_price >= 0

VariantInBounds(v) ==
    v.stock >= 0 /\ v.finish \in {"opaco", "seta", "lucido", "satinato", "opaco-prof"}

\* The bounds and enumerations of C3, per create request.
BodyInBounds(op, b) ==
    CASE op = "create_review" -> b.rating \in 1..5
      [] op = "create_order" ->
            /\ b.total >= 0
            /\ b.status \in {"pending", "paid", "shipped"}
            /\ \A i \in 1..Len(b.items) : ItemInBounds(b.items[i])
      [] op = "create_product" ->
            /\ b.base_price >= 0
            /\ b.usage \in {"interno", "esterno", "entrambi"}
            /\ \A i \in 1..Len(b.variants) : VariantInBounds(b.variants[i])
      [] op = "create_professional" -> b.tier \in {"standard", "pro", "elite"}
      [] OTHER -> TRUE

StoredInBounds ==
    /\ \A i \in 1..Len(review) : BodyInBounds("create_review", review[i])
    /\ \A i \in 1..Len(order) : BodyInBounds("create_order", order[i])
    /\ \A i \in 1..Len(product) : BodyInBounds("create_product", product[i])
    /\ \A i \in 1..Len(professional) : BodyInBounds("create_professional", professional[i])

\* C3: a create request whose body breaks a numeric bound or an enumeration
\* is answered 422 and leaves every collection as it was, and so every stored
\* document is within the bounds.
C3_OutOfBoundsRejected ==
    /\ []StoredInBounds
    /\ [][ (resp'.op \in CreateOps /\ ~BodyInBounds(resp'.op, resp'.req)) =>
               (resp'.status = 422 /\ store' = store) ]_vars

C3_Witness ==
    /\ resp.op = "create_review"
    /\ resp.req.rating = 6
    /\ resp.status = 422
    /\ Len(review) = 1
    /\ review[1].rating = 5

\* ------------------------------------------------------------------ C4

HexDigitChars ==
    <<"0", "1", "2", "3", "4", "5", "6", "7", "8", "9",
      "a", "b", "c", "d", "e", "f", "A", "B", "C", "D", "E", "F">>
\* The digit of 15 - d for each digit d above: 255 - (16 a + b) is
\* 16 (15 - a) + (15 - b).
ComplementChars ==
    <<"F", "E", "D", "C", "B", "A", "9", "8", "7", "6",
      "5", "4", "3", "2", "1", "0", "5", "4", "3", "2", "1", "0">>

IsHexChar(c) == \E i \in 1..22 : HexDigitChars[i] = c
ComplementChar(c) == ComplementChars[CHOOSE i \in 1..22 : HexDigitChars[i] = c]

IsHexColor(c) == Len(c) = 7 /\ c[1] = "#" /\ \A i \in 2..7 : IsHexChar(c[i])

\* C4: for #RRGGBB with six hex digits of either case the answer is 200, the
\* complementary is the colour of the channels 255 - channel in upper-case hex,
\* and the suggestions are the complement, the complement with G and B
\* swapped, and the complement with R and G swapped.
C4_Complement ==
    (resp.op = "complementary" /\ IsHexColor(resp.req)) =>
        LET c == resp.req
            k == [i \in 2..7 |-> ComplementChar(c[i])]
        IN  /\ resp.status = 200
            /\ resp.out.complementary = <<"#", k[2], k[3], k[4], k[5], k[6], k[7]>>
            /\ resp.out.suggestions =
                   << <<"#", k[2], k[3], k[4], k[5], k[6], k[7]>>,
                      <<"#", k[2], k[3], k[6], k[7], k[4], k[5]>>,
                      <<"#", k[4], k[5], k[2], k[3], k[6], k[7]>> >>
            /\ c = <<"#", "3", "3", "6", "6", "9", "9">> =>
                   resp.out.suggestions =
                       << <<"#", "C", "C", "9", "9", "6", "6">>,
                          <<"#", "C", "C", "6", "6", "9", "9">>,
                          <<"#", "9", "9", "C", "C", "6", "6">> >>

C4_Witness ==
    /\ resp.op = "complementary"
    /\ resp.req = <<"#", "3", "3", "6", "6", "9", "9">>
    /\ resp.status = 200
    /\ resp.out.complementary = <<"#", "C", "C", "9", "9", "6", "6">>

\* ------------------------------------------------------------------ C5

HasColorShape(c) == Len(c) = 7 /\ Head(c) = "#"

\* C5: the answer is 400 for every text that does not start with "#" or is
\* not 7 characters long, and is never 400 for a text that starts with "#"
\* and is 7 long.
C5_InvalidFormat ==
    resp.op = "complementary" => (resp.status = 400 <=> ~HasColorShape(resp.req))

C5_Witness ==
    /\ resp.op = "complementary"
    /\ resp.req = <<"#", "3", "3", "6", "6">>
    /\ resp.status = 400

\* ------------------------------------------------------------------ C6

\* C6: a text of 7 characters that starts with "#" and whose other 6 are not
\* all hex digits is answered 500, never 200.
C6_NonHexRaises ==
    (resp.op = "complementary" /\ HasColorShape(resp.req) /\ ~IsHexColor(resp.req)) =>
        resp.status = 500

\* ------------------------------------------------------------------ C10

IsUpperHexChar(c) == \E i \in 1..22 : HexDigitChars[i] = c /\ (i <= 10 \/ i >= 17)

WellFormedColor(c) == Len(c) = 7 /\ c[1] = "#" /\ \A i \in 2..7 : IsUpperHexChar(c[i])

\* C10: whenever the answer is 200, the complementary and each of the three
\* suggestions is "#" and six upper-case hex digits.
C10_WellFormedAnswer ==
    (resp.op = "complementary" /\ resp.status = 200) =>
        /\ WellFormedColor(resp.out.complementary)
        /\ Len(resp.out.suggestions) = 3
        /\ \A i \in 1..3 : WellFormedColor(resp.out.suggestions[i])

\* ------------------------------------------------------------------ C7

Abs(x) == IF x < 0 THEN 0 - x ELSE x

\* C7: litri is mq * mano / max(0.1, resa_mq_litro) rounded to two decimals,
\* with mano 2 and resa_mq_litro 10.0 when left out; a yield under 0.1 counts
\* as 0.1, so the request always answers. In hundredths: litri is within half
\* a unit of 100 * mq * mano / yield.
C7_Coverage ==
    resp.op = "coverage" =>
        LET mq == resp.req.mq
            mano == IF resp.req.mano = None THEN 2 ELSE The(resp.req.mano)
            resa == IF resp.req.resa_mq_litro = None THEN 1000
                    ELSE The(resp.req.resa_mq_litro)
            yield == IF resa < 10 THEN 10 ELSE resa
        IN  /\ resp.status = 200
            /\ 2 * Abs(resp.out.litri * yield - 100 * mq * mano) <= yield
            /\ (mq = 2000 /\ mano = 2 /\ resa = 1000) => resp.out.litri = 400
            /\ (mq = 1000 /\ mano = 1 /\ resa = 5) => resp.out.litri = 10000

C7_Witness ==
    /\ resp.op = "coverage"
    /\ resp.req = [mq |-> 1000, mano |-> Some(1), resa_mq_litro |-> Some(5)]
    /\ resp.status = 200
    /\ resp.out.litri = 10000

\* ------------------------------------------------------------------ C8

\* C8: the answer to GET /api/reviews/{product_id} is 200 with the stored
\* reviews of exactly that product_id, at most 100 of them, and nothing else;
\* it is the empty list when no stored review has that product_id.
C8_ReviewsOfProduct ==
    resp.op = "get_reviews" =>
        LET Mine(d) == d.product_id = resp.req
            mine == SelectSeq(review, Mine)
        IN  /\ resp.status = 200
            /\ Len(resp.out) = Cap(100, Len(mine))
            /\ resp.out = SubSeq(mine, 1, Len(resp.out))

C8_Witness ==
    /\ resp.op = "get_reviews"
    /\ Len(review) = 2
    /\ Len(resp.out) = 1
    /\ review[1].product_id # resp.req

\* ------------------------------------------------------------------ C9

Grows(coll, coll2) == Len(coll2) = Len(coll) + 1 /\ SubSeq(coll2, 1, Len(coll)) = coll

\* The step adds one document at the end of the collection named, and leaves
\* the other collections as they were.
AddsOneTo(name) ==
    /\ IF name = "category" THEN Grows(category, category') ELSE category' = category
    /\ IF name = "product" THEN Grows(product, product') ELSE product' = product
    /\ IF name = "review" THEN Grows(review, review') ELSE review' = review
    /\ IF name = "order" THEN Grows(order, order') ELSE order' = order
    /\ IF name = "blogpost" THEN Grows(blogpost, blogpost') ELSE blogpost' = blogpost
    /\ IF name = "contactmessage" THEN Grows(contactmessage, contactmessage')
       ELSE contactmessage' = contactmessage
    /\ IF name = "professional" THEN Grows(professional, professional')
       ELSE professional' = professional

OwnCollection(op) ==
    CASE op = "create_category" -> "category"
      [] op = "create_product" -> "product"
      [] op = "create_review" -> "review"
      [] op = "create_order" -> "order"
      [] op = "create_blog" -> "blogpost"
      [] op = "contact" -> "contactmessage"
      [] op = "create_professional" -> "professional"

\* C9: no request modifies or removes a stored document; a successful POST
\* adds exactly one document to its own collection and leaves the others
\* unchanged; every other request leaves all collections unchanged.
C9_AppendOnly ==
    [][ IF resp'.op \in CreateOps /\ resp'.status = 200
        THEN AddsOneTo(OwnCollection(resp'.op))
        ELSE store' = store ]_vars

C9_Witness ==
    /\ resp.op = "create_order"
    /\ resp.status = 200
    /\ Len(order) = 1
    /\ Len(review) = 1

====
